---- MODULE Spec2Model ----
(***************************************************************************)
(* PhishNet backend: the heuristic analyzer (backend/ai_model.py) and the   *)
(* /analyze route (backend/app.py).                                         *)
(*                                                                         *)
(* A text is a sequence of one-character strings, so that str.strip,        *)
(* str.lower, the substring tests, str.count and the regular expressions    *)
(* are computed on characters.  Python values that may come from the        *)
(* model's JSON reply are tagged records: [t |-> "str", s |-> ...],         *)
(* [t |-> "int", n |-> ...], [t |-> "none"], ...; a Python list is a        *)
(* sequence of such values.                                                 *)
(***************************************************************************)
EXTENDS Integers, Sequences, FiniteSets, TLC

VARIABLES
    apiKey,     \* os.getenv("GEMINI_API_KEY") or os.getenv("OPENAI_API_KEY") is set
    hasGemini,  \* _HAS_GEMINI: the google.generativeai import succeeded
    pc,         \* where the request in progress stands
    caller,     \* "http": the /analyze route; "direct": analyze_text called as a function
    text,       \* the text under analysis (a character sequence)
    heur,       \* heuristics_analyze's verdict (analyze_text's local heur)
    reply,      \* what the adapter got: unavailable, raised, or the reply text
    final,      \* call_llm_to_refine's result (analyze_text's local final)
    resp        \* the last result handed back: an HTTP response or a returned dict

vars == <<apiKey, hasGemini, pc, caller, text, heur, reply, final, resp>>

(***************************************************************************)
(* Bounds of the model.                                                    *)
(***************************************************************************)
MaxFrags == 2

(***************************************************************************)
(* Python values.                                                          *)
(***************************************************************************)
None == [t |-> "none"]
Str(s) == [t |-> "str", s |-> s]
Num(n) == [t |-> "int", n |-> n]

\* Python truthiness of an Optional[str]: None and "" are false.
Truthy(v) == v # None /\ v # Str("")

(***************************************************************************)
(* Characters and strings.                                                 *)
(***************************************************************************)
UpperChars == <<"A","B","C","D","E","F","G","H","I","J","K","L","M","N","O","P","Q","R","S","T","U","V","W","X","Y","Z">>
LowerChars == <<"a","b","c","d","e","f","g","h","i","j","k","l","m","n","o","p","q","r","s","t","u","v","w","x","y","z">>
DigitChars == {"0", "1", "2", "3", "4", "5", "6", "7", "8", "9"}
Whitespace == {" ", "\n", "\t"}

IsUpper(c) == \E i \in DOMAIN UpperChars : UpperChars[i] = c
IsLower(c) == \E i \in DOMAIN LowerChars : LowerChars[i] = c
IsDigit(c) == c \in DigitChars
IsAlnum(c) == IsUpper(c) \/ IsLower(c) \/ IsDigit(c)

LowerChar(c) ==
    IF IsUpper(c)
    THEN LowerChars[CHOOSE i \in DOMAIN UpperChars : UpperChars[i] = c]
    ELSE c

\* str.lower()
RECURSIVE Lower(_)
Lower(s) ==
    IF s = <<>> THEN <<>>
    ELSE IF Len(s) = 1 THEN <<LowerChar(s[1])>>
    ELSE LET h == Len(s) \div 2
         IN  Lower(SubSeq(s, 1, h)) \o Lower(SubSeq(s, h + 1, Len(s)))

SetMin(S) == CHOOSE x \in S : \A y \in S : x <= y
SetMax(S) == CHOOSE x \in S : \A y \in S : x >= y
Min(a, b) == IF a <= b THEN a ELSE b
Max(a, b) == IF a >= b THEN a ELSE b

\* str.strip(): leading and trailing whitespace removed.
Strip(s) ==
    LET keep == {i \in 1..Len(s) : s[i] \notin Whitespace}
    IN  IF keep = {} THEN <<>> ELSE SubSeq(s, SetMin(keep), SetMax(keep))

\* sub occurs in s at position i.
MatchAt(s, sub, i) ==
    /\ i >= 1
    /\ i + Len(sub) - 1 <= Len(s)
    /\ \A j \in 1..Len(sub) : s[i + j - 1] = sub[j]

\* Python's `sub in s`.
Contains(s, sub) == \E i \in 1..(Len(s) - Len(sub) + 1) : MatchAt(s, sub, i)

\* s.startswith(sub)
StartsWith(s, sub) == MatchAt(s, sub, 1)

\* s.count(c) for a single character c.
Count(s, c) == Cardinality({i \in 1..Len(s) : s[i] = c})

\* ", ".join(names) and friends, on strings.
RECURSIVE JoinStr(_, _)
JoinStr(names, sep) ==
    IF names = <<>> THEN ""
    ELSE IF Len(names) = 1 THEN names[1]
    ELSE names[1] \o sep \o JoinStr(Tail(names), sep)

\* xs[:n]
Take(xs, n) == SubSeq(xs, 1, Min(n, Len(xs)))

(***************************************************************************)
(* Constants of heuristics_analyze.                                        *)
(***************************************************************************)
UrgencyWeight == 28
SensitiveWeight == 30
ExclamWeight == 6
ExclamThreshold == 2
CapsWeight == 5
CapsRunLen == 6
IpWeight == 20
ShortenerWeight == 12
HyphenWeight == 6
HyphenThreshold == 2
MaxListed == 5
MaxScore == 100
DangerousFrom == 60
SuspiciousFrom == 30

\* The urgency phrases, in list order.
urgent == <<
    [name |-> "urgent", chars |-> <<"u","r","g","e","n","t">>],
    [name |-> "verify", chars |-> <<"v","e","r","i","f","y">>],
    [name |-> "verify your", chars |-> <<"v","e","r","i","f","y"," ","y","o","u","r">>],
    [name |-> "immediately", chars |-> <<"i","m","m","e","d","i","a","t","e","l","y">>],
    [name |-> "suspend", chars |-> <<"s","u","s","p","e","n","d">>],
    [name |-> "suspended", chars |-> <<"s","u","s","p","e","n","d","e","d">>],
    [name |-> "act now", chars |-> <<"a","c","t"," ","n","o","w">>],
    [name |-> "click below", chars |-> <<"c","l","i","c","k"," ","b","e","l","o","w">>],
    [name |-> "deadline", chars |-> <<"d","e","a","d","l","i","n","e">>],
    [name |-> "your account has been suspended",
     chars |-> <<"y","o","u","r"," ","a","c","c","o","u","n","t"," ","h","a","s"," ","b","e","e","n"," ","s","u","s","p","e","n","d","e","d">>] >>

\* The sensitive-information phrases, in list order.
sensitive == <<
    [name |-> "password", chars |-> <<"p","a","s","s","w","o","r","d">>],
    [name |-> "credit card", chars |-> <<"c","r","e","d","i","t"," ","c","a","r","d">>],
    [name |-> "ssn", chars |-> <<"s","s","n">>],
    [name |-> "social security", chars |-> <<"s","o","c","i","a","l"," ","s","e","c","u","r","i","t","y">>],
    [name |-> "account number", chars |-> <<"a","c","c","o","u","n","t"," ","n","u","m","b","e","r">>],
    [name |-> "acct number", chars |-> <<"a","c","c","t"," ","n","u","m","b","e","r">>],
    [name |-> "routing number", chars |-> <<"r","o","u","t","i","n","g"," ","n","u","m","b","e","r">>],
    [name |-> "bank number", chars |-> <<"b","a","n","k"," ","n","u","m","b","e","r">>],
    [name |-> "login", chars |-> <<"l","o","g","i","n">>],
    [name |-> "verify identity", chars |-> <<"v","e","r","i","f","y"," ","i","d","e","n","t","i","t","y">>] >>

shorteners == << <<"b","i","t",".","l","y">>, <<"t","i","n","y","u","r","l",".","c","o","m">>, <<"t",".","c","o">>, <<"g","o","o",".","g","l">>, <<"t","i","n","y",".","c","c">> >>

\* [w for w in words if w in t_low], as the phrases' names.
FoundIn(words, t_low) ==
    LET hits == SelectSeq(words, LAMBDA w : Contains(t_low, w.chars))
    IN  [i \in 1..Len(hits) |-> hits[i].name]

\* Mutation of UrgencyScore: the weight is added once per matched phrase.
UrgencyScorePerMatch(found) == UrgencyWeight * Len(found)

\* What a non-empty found_urgent adds to the score.
UrgencyScore(found) == IF found # <<>> THEN UrgencyWeight ELSE 0

\* What a non-empty found_sensitive adds to the score.
SensitiveScore(found) == IF found # <<>> THEN SensitiveWeight ELSE 0

\* exclam >= 2
ExclamFires(exclam) == exclam >= ExclamThreshold

\* Mutation of HasCapsRun: the run must be one capital longer.
HasLongerCapsRun(t) ==
    \E i \in 1..(Len(t) - CapsRunLen) :
        \A j \in 0..CapsRunLen : IsUpper(t[i + j])

\* re.search(r"[A-Z]{6,}", t)
HasCapsRun(t) ==
    \E i \in 1..(Len(t) - CapsRunLen + 1) :
        \A j \in 0..(CapsRunLen - 1) : IsUpper(t[i + j])

(***************************************************************************)
(* URL extraction and inspection.                                          *)
(***************************************************************************)
\* The whitespace-delimited tokens of t, in order.
RECURSIVE Tokens(_)
Tokens(t) ==
    LET start == {i \in 1..Len(t) : t[i] \notin Whitespace}
    IN  IF start = {} THEN <<>>
        ELSE LET b == SetMin(start)
                 stops == {i \in b..Len(t) : t[i] \in Whitespace}
                 e == IF stops = {} THEN Len(t) + 1 ELSE SetMin(stops)
             IN  <<SubSeq(t, b, e - 1)>> \o Tokens(SubSeq(t, e, Len(t)))

\* A token URLExtract reports: it holds a dot between a host character and
\* the first character of a top-level domain or of an IPv4 octet.
IsUrlToken(tok) ==
    \E i \in 2..(Len(tok) - 1) :
        tok[i] = "." /\ IsAlnum(tok[i - 1]) /\ IsAlnum(tok[i + 1])

\* extractor.find_urls(t): the URL-like tokens in order, duplicates kept.
FindUrls(t) == SelectSeq(Tokens(t), IsUrlToken)

\* u if u.startswith("http") else "http://" + u
Normalize(u) == IF StartsWith(u, <<"h","t","t","p">>) THEN u ELSE <<"h","t","t","p",":","/","/">> \o u

\* The end (exclusive) of the longest digit run of s starting at i.
RECURSIVE DigitsEnd(_, _)
DigitsEnd(s, i) ==
    IF i <= Len(s) /\ IsDigit(s[i]) THEN DigitsEnd(s, i + 1) ELSE i

\* \d+\.\d+\.\d+\.\d+ matches s at position i.
QuadAt(s, i) ==
    LET e1 == DigitsEnd(s, i)
        e2 == DigitsEnd(s, e1 + 1)
        e3 == DigitsEnd(s, e2 + 1)
        e4 == DigitsEnd(s, e3 + 1)
    IN  /\ e1 > i /\ e1 <= Len(s) /\ s[e1] = "."
        /\ e2 > e1 + 1 /\ e2 <= Len(s) /\ s[e2] = "."
        /\ e3 > e2 + 1 /\ e3 <= Len(s) /\ s[e3] = "."
        /\ e4 > e3 + 1

\* re.search(r"https?://\d+\.\d+\.\d+\.\d+", u_norm)
IsIpUrl(u_norm) ==
    \E i \in 1..Len(u_norm) :
        \/ MatchAt(u_norm, <<"h","t","t","p",":","/","/">>, i) /\ QuadAt(u_norm, i + 7)
        \/ MatchAt(u_norm, <<"h","t","t","p","s",":","/","/">>, i) /\ QuadAt(u_norm, i + 8)

\* any(s in u_norm for s in shorteners)
IsShortened(u_norm) == \E k \in DOMAIN shorteners : Contains(u_norm, shorteners[k])

\* The host of a URL: what follows "://" up to the first "/", ":" or "?".
HostOf(u_norm) ==
    LET seps == {i \in 1..Len(u_norm) : MatchAt(u_norm, <<":","/","/">>, i)}
        rest == IF seps = {} THEN u_norm
                ELSE SubSeq(u_norm, SetMin(seps) + 3, Len(u_norm))
        stops == {i \in 1..Len(rest) : rest[i] \in {"/", ":", "?"}}
    IN  IF stops = {} THEN rest ELSE SubSeq(rest, 1, SetMin(stops) - 1)

\* The labels of a host, split at the dots.
RECURSIVE Labels(_)
Labels(h) ==
    LET dots == {i \in 1..Len(h) : h[i] = "."}
    IN  IF dots = {} THEN <<h>>
        ELSE <<SubSeq(h, 1, SetMin(dots) - 1)>>
             \o Labels(SubSeq(h, SetMin(dots) + 1, Len(h)))

\* The host is a dotted quad: tldextract reports it as the domain, no suffix.
LooksLikeIp(h) ==
    LET ls == Labels(h)
    IN  Len(ls) = 4 /\ \A k \in 1..4 : ls[k] # <<>> /\ \A i \in 1..Len(ls[k]) : IsDigit(ls[k][i])

\* ext = tldextract.extract(u_norm);
\* f"{ext.domain}.{ext.suffix}" if ext.suffix else ext.domain.
\* The public suffixes of the model's URLs are single labels (com, ly, co).
RegistrableDomain(u_norm) ==
    LET h == HostOf(u_norm)
        ls == Labels(h)
        n == Len(ls)
    IN  IF LooksLikeIp(h) \/ n < 2 THEN h
        ELSE ls[n - 1] \o <<".">> \o ls[n]

\* domain and domain.count("-") >= 2
HasHyphenPattern(domain) == domain # <<>> /\ Count(domain, "-") >= HyphenThreshold

\* The problem after the IP check.
ProblemIp(ip) == IF ip THEN Str("IP address used in URL") ELSE None

\* Mutation of AddProblem: a later flag replaces the problem found so far.
AddProblemOverwrite(problem, name) == Str(name)

\* problem = (problem + "; " + name) if problem else name
AddProblem(problem, name) ==
    IF Truthy(problem) THEN Str(problem.s \o "; " \o name) ELSE Str(name)

\* One pass of the loop body for URL u: the score added and the finding.
InspectUrl(u) ==
    LET u_norm == Normalize(u)
        domain == RegistrableDomain(u_norm)
        ip == IsIpUrl(u_norm)
        short == IsShortened(u_norm)
        hyph == HasHyphenPattern(domain)
        p1 == ProblemIp(ip)
        p2 == IF short THEN AddProblem(p1, "shortened URL") ELSE p1
        p3 == IF hyph THEN AddProblem(p2, "suspicious domain pattern") ELSE p2
    IN  [added |-> (IF ip THEN IpWeight ELSE 0)
                   + (IF short THEN ShortenerWeight ELSE 0)
                   + (IF hyph THEN HyphenWeight ELSE 0),
         link |-> [t |-> "dict", url |-> u, domain |-> domain, problem |-> p3]]

\* for u in urls: ...; the running score and suspicious_links after the loop.
RECURSIVE InspectUrls(_, _, _)
InspectUrls(urls, score, links) ==
    IF urls = <<>> THEN [score |-> score, links |-> links]
    ELSE LET r == InspectUrl(Head(urls))
         IN  InspectUrls(Tail(urls), score + r.added, Append(links, r.link))

\* Mutation of Clamp: the upper bound is not applied.
ClampLowOnly(score) == Max(0, score)

\* score = max(0, min(100, score))
Clamp(score) == Max(0, Min(MaxScore, score))

\* The label mapping.
LabelOf(score) ==
    IF score >= DangerousFrom THEN "Dangerous"
    ELSE IF score >= SuspiciousFrom THEN "Suspicious"
    ELSE "Safe"

\* The verdict of the early return.
EmptyVerdict ==
    [risk_level |-> Str("Safe"), score |-> 0,
     reasons |-> <<Str("Empty message")>>, suspicious_links |-> <<>>]

\* Mutation of WithNeutral: no neutral reason is appended.
KeepReasons(reasons) == reasons

\* reasons after the neutral-reason step.
WithNeutral(reasons) ==
    IF reasons = <<>> THEN <<Str("No strong heuristic flags found")>> ELSE reasons

\* if not text
IsEmptyText(txt) == txt = <<>>

\* heuristics_analyze(text)
HeuristicsAnalyze(txt) ==
    IF IsEmptyText(txt) THEN EmptyVerdict
    ELSE
    LET t == Strip(txt)
        t_low == Lower(t)
        found_urgent == FoundIn(urgent, t_low)
        r1 == IF found_urgent # <<>>
              THEN <<Str("Urgency language: " \o JoinStr(Take(found_urgent, MaxListed), ", "))>>
              ELSE <<>>
        s1 == UrgencyScore(found_urgent)
        found_sensitive == FoundIn(sensitive, t_low)
        r2 == IF found_sensitive # <<>>
              THEN Append(r1, Str("Requests sensitive info: "
                                  \o JoinStr(Take(found_sensitive, MaxListed), ", ")))
              ELSE r1
        s2 == s1 + SensitiveScore(found_sensitive)
        exclam == Count(t, "!")
        r3 == IF ExclamFires(exclam)
              THEN Append(r2, Str("Contains " \o ToString(exclam) \o " exclamation mark(s)"))
              ELSE r2
        s3 == IF ExclamFires(exclam) THEN s2 + ExclamWeight ELSE s2
        caps == HasCapsRun(t)
        r4 == IF caps THEN Append(r3, Str("Contains long ALL-CAPS word(s)")) ELSE r3
        s4 == IF caps THEN s3 + CapsWeight ELSE s3
        loop == InspectUrls(FindUrls(t), s4, <<>>)
        r5 == IF loop.links # <<>>
              THEN Append(r4, Str("Found " \o ToString(Len(loop.links))
                                  \o " link(s) -- inspect domains"))
              ELSE r4
        score == Clamp(loop.score)
    IN  [risk_level |-> Str(LabelOf(score)), score |-> score,
         reasons |-> WithNeutral(r5), suspicious_links |-> loop.links]

(***************************************************************************)
(* The texts of the model: up to MaxFrags fragments joined by single       *)
(* spaces; one fragment is a lone newline, so that blank texts and texts   *)
(* with leading or trailing whitespace are among them.                     *)
(***************************************************************************)
UrgentIpText ==
    <<"U","R","G","E","N","T","!"," ","P","l","e","a","s","e"," ","v","e","r","i","f","y"," ","y","o","u","r"," ","p","a","s","s","w","o","r","d"," ","i","m","m","e","d","i","a","t","e","l","y"," ","a","t"," ","h","t","t","p",":","/","/","1","9","2",".","1","6","8",".","1",".","5","/","l","o","g","i","n">>
AlertText == <<"A","L","E","R","T">>
PrizeText == <<"C","l","i","c","k"," ","h","e","r","e",":"," ","h","t","t","p","s",":","/","/","b","i","t",".","l","y","/","a","b","c","1","2","3"," ","t","o"," ","c","l","a","i","m"," ","y","o","u","r"," ","p","r","i","z","e","!","!">>

Frags == <<
    UrgentIpText,
    AlertText,
    PrizeText,
    <<"\n">>,
    <<"h","t","t","p",":","/","/","1",".","2",".","3",".","4",".","a","-","b","-","t",".","c","o">>,
    <<"p","a","y","-","p","a","l","-","s","e","c","u","r","e",".","c","o","m","/","x">>,
    <<"a","-","b",".","e","x","a","m","p","l","e",".","c","o","m","/","c","-","d">> >>

RECURSIVE JoinFrags(_)
JoinFrags(ix) ==
    IF ix = <<>> THEN <<>>
    ELSE IF Len(ix) = 1 THEN Frags[ix[1]]
    ELSE Frags[ix[1]] \o <<" ">> \o JoinFrags(Tail(ix))

FragSeqs == UNION {[1..n -> DOMAIN Frags] : n \in 0..MaxFrags}

Texts == {JoinFrags(ix) : ix \in FragSeqs}

(***************************************************************************)
(* The adapter: the reply of the remote model and its parsing.              *)
(***************************************************************************)
Absent == [t |-> "absent"]
List(xs) == [t |-> "list", xs |-> xs]
Float(tenths) == [t |-> "float", tenths |-> tenths]

\* A JSON object with the four keys of the schema, each present or absent.
Obj(score, risk_level, reasons, links) ==
    [score |-> score, risk_level |-> risk_level,
     reasons |-> reasons, suspicious_links |-> links]

\* parsed.get(key, default), given the key's value or Absent.
Get(v, default) == IF v = Absent THEN default ELSE v

\* The decimal strings among the model's strings, with their values.
Decimals == {[s |-> "70", n |-> 70]}

\* int(v): the integer, or not ok when Python raises ValueError or TypeError.
PyInt(v) ==
    CASE v.t = "int" -> [ok |-> TRUE, n |-> v.n]
      [] v.t = "float" ->
            [ok |-> TRUE,
             n |-> IF v.tenths >= 0 THEN v.tenths \div 10 ELSE -((-v.tenths) \div 10)]
      [] v.t = "str" ->
            IF \E d \in Decimals : d.s = v.s
            THEN [ok |-> TRUE, n |-> (CHOOSE d \in Decimals : d.s = v.s).n]
            ELSE [ok |-> FALSE, n |-> 0]
      [] OTHER -> [ok |-> FALSE, n |-> 0]

\* str(v) for a value that is not a list.
PyStr(v) ==
    CASE v.t = "str" -> v.s
      [] v.t = "int" -> ToString(v.n)
      [] v.t = "none" -> "None"
      [] OTHER -> "<" \o v.t \o ">"

\* isinstance(v, list)
IsList(v) == v.t = "list"

\* max(0, min(100, parsed_score))
SanitizeScore(n) == Max(0, Min(MaxScore, n))

\* The dict built from a parsed reply and the heuristics output; int() raising
\* lands in the except clause, which returns the heuristics output.
Sanitize(parsed, base) ==
    LET score == PyInt(Get(parsed.score, Num(base.score)))
        parsed_level == Get(parsed.risk_level, base.risk_level)
        parsed_reasons == Get(parsed.reasons, List(base.reasons))
        parsed_links == Get(parsed.suspicious_links, List(base.suspicious_links))
    IN  IF ~score.ok THEN base
        ELSE [risk_level |-> parsed_level,
              score |-> SanitizeScore(score.n),
              reasons |-> IF IsList(parsed_reasons) THEN parsed_reasons.xs
                          ELSE <<Str(PyStr(parsed_reasons))>>,
              suspicious_links |-> IF IsList(parsed_links) THEN parsed_links.xs
                                   ELSE base.suspicious_links]

\* The reply text is a sequence of pieces: braces, other text, and the
\* members of one JSON object.
LB == [t |-> "lbrace"]
RB == [t |-> "rbrace"]
Junk == [t |-> "junk"]
Members(obj) == [t |-> "members", obj |-> obj]

\* text_out.find("{"), or 0 when there is none.
Find(out, piece) ==
    LET at == {i \in 1..Len(out) : out[i] = piece}
    IN  IF at = {} THEN 0 ELSE SetMin(at)

\* text_out.rfind("}"), or 0 when there is none.
RFind(out, piece) ==
    LET at == {i \in 1..Len(out) : out[i] = piece}
    IN  IF at = {} THEN 0 ELSE SetMax(at)

\* json.loads(json_text): the object, or not ok when it raises.
JsonLoads(json_text) ==
    IF Len(json_text) = 3 /\ json_text[1] = LB /\ json_text[3] = RB
       /\ json_text[2].t = "members"
    THEN [ok |-> TRUE, obj |-> json_text[2].obj]
    ELSE [ok |-> FALSE, obj |-> Absent]

\* The try block after generate_content returned text_out.
ParseAndSanitize(out, base) ==
    LET json_start == Find(out, LB)
        json_end == RFind(out, RB)
    IN  IF json_start # 0 /\ json_end # 0 /\ json_end > json_start
        THEN LET parsed == JsonLoads(SubSeq(out, json_start, json_end))
             IN  IF parsed.ok THEN Sanitize(parsed.obj, base) ELSE base
        ELSE base

\* call_llm_to_refine after the remote call ended with reply r.
RefineFrom(r, base) ==
    IF r.kind = "raised" THEN base ELSE ParseAndSanitize(r.out, base)

\* The verdict-like dicts a reply may hold.
LlmLink ==
    [t |-> "dict", url |-> <<"e","v","i","l",".","e","x","a","m","p","l","e">>, domain |-> <<"e","v","i","l",".","e","x","a","m","p","l","e">>,
     problem |-> Str("lookalike domain")]

ReplyScores ==
    {Absent, Num(-5), Num(45), Num(150), Float(457), Str("70"), Str("high")}
ReplyLevels == {Absent, Str("Dangerous"), Str("Banana")}
ReplyReasons ==
    {List(<<Str("Model: credential phishing")>>), List(<<Num(7)>>), List(<<>>),
     Str("looks fine"), None}
ReplyLinks == {List(<<LlmLink>>), List(<<>>), Str("none"), None}

ReplyObjects ==
    {Obj(s, l, Absent, Absent) : s \in ReplyScores, l \in ReplyLevels}
    \cup {Obj(Absent, Absent, r, Absent) : r \in ReplyReasons}
    \cup {Obj(Absent, Absent, Absent, k) : k \in ReplyLinks}
    \cup {Obj(Str("high"), Str("Dangerous"), List(<<Str("Model: credential phishing")>>),
              List(<<LlmLink>>)),
          Obj(Num(90), Str("Dangerous"), List(<<Str("Model: credential phishing")>>),
              List(<<LlmLink>>))}

ReplyTexts ==
    {<<LB, Members(o), RB>> : o \in ReplyObjects}
    \cup {<<Junk, LB, Members(Obj(Num(45), Str("Suspicious"), Absent, Absent)), RB, Junk>>,
          <<Junk>>,
          <<RB, Junk, LB>>,
          <<LB, Members(Obj(Num(45), Str("Suspicious"), Absent, Absent))>>,
          <<LB, Junk, RB>>,
          <<LB, Members(Obj(Num(45), Str("Suspicious"), Absent, Absent)), RB,
            LB, Members(Obj(Absent, Absent, Absent, Absent)), RB>>}

Replies ==
    {[kind |-> "raised", out |-> <<>>]}
    \cup {[kind |-> "text", out |-> o] : o \in ReplyTexts}

NoReply == [kind |-> "none", out |-> <<>>]
Unavailable == [kind |-> "unavailable", out |-> <<>>]

(***************************************************************************)
(* The state machine.                                                      *)
(***************************************************************************)
NoText == <<"\t">>
NoVerdict == [t |-> "none"]
NoResp == [status |-> "none", body |-> NoVerdict]

\* The JSON payloads of a POST /analyze: without a text key, or with a text.
Payloads ==
    {[has |-> FALSE, text |-> <<>>]} \cup {[has |-> TRUE, text |-> t] : t \in Texts}

Init ==
    /\ apiKey \in BOOLEAN
    /\ hasGemini \in BOOLEAN
    /\ pc = "idle"
    /\ caller = "none"
    /\ text = NoText
    /\ heur = NoVerdict
    /\ reply = NoReply
    /\ final = NoVerdict
    /\ resp = NoResp

\* not text or not text.strip()
NoTextProvided(txt) == txt = <<>> \/ Strip(txt) = <<>>

\* POST /analyze: the payload is read and validated; a text that is missing,
\* empty or blank is answered 400; for any other the route calls analyze_text,
\* which runs heur = heuristics_analyze(text) and enters call_llm_to_refine.
AnalyzeRequest ==
    /\ pc = "idle"
    /\ \E payload \in Payloads :
        LET txt == IF payload.has THEN payload.text ELSE <<>>
        IN  IF NoTextProvided(txt)
            THEN /\ resp' = [status |-> "400", body |-> [error |-> "No text provided"]]
                 /\ pc' = "responded"
                 /\ UNCHANGED <<caller, text, heur>>
            ELSE /\ resp' = NoResp
                 /\ pc' = "refine"
                 /\ caller' = "http"
                 /\ text' = txt
                 /\ heur' = HeuristicsAnalyze(txt)
    /\ UNCHANGED <<apiKey, hasGemini, reply, final>>

\* analyze_text(text) called as the module's public function, with any
\* string: heur = heuristics_analyze(text), then call_llm_to_refine is entered.
DirectCall ==
    /\ pc = "idle"
    /\ \E txt \in Texts :
        /\ text' = txt
        /\ heur' = HeuristicsAnalyze(txt)
        /\ caller' = "direct"
        /\ pc' = "refine"
        /\ resp' = NoResp
    /\ UNCHANGED <<apiKey, hasGemini, reply, final>>

\* not api_key or not _HAS_GEMINI
AdapterUnavailable == ~apiKey \/ ~hasGemini

\* call_llm_to_refine up to the remote call: without a key or the library it
\* returns the heuristics output; otherwise it builds the prompt and blocks in
\* model.generate_content(prompt).
CallLlmToRefine ==
    /\ pc = "refine"
    /\ IF AdapterUnavailable
       THEN /\ final' = heur
            /\ reply' = Unavailable
            /\ pc' = "return"
       ELSE /\ pc' = "remote"
            /\ UNCHANGED <<final, reply>>
    /\ UNCHANGED <<apiKey, hasGemini, caller, text, heur, resp>>

\* The remote call ends, by raising or with a reply text, and the rest of
\* call_llm_to_refine runs.  Nothing in the adapter ends the wait otherwise.
RemoteReturns ==
    /\ pc = "remote"
    /\ \E r \in Replies :
        /\ reply' = r
        /\ final' = RefineFrom(r, heur)
    /\ pc' = "return"
    /\ UNCHANGED <<apiKey, hasGemini, caller, text, heur, resp>>

\* analyze_text returns final to the route, which returns jsonify(result);
\* the locals of the call are gone.
Respond ==
    /\ pc = "return"
    /\ caller = "http"
    /\ resp' = [status |-> "200", body |-> final]
    /\ pc' = "responded"
    /\ text' = NoText
    /\ heur' = NoVerdict
    /\ reply' = NoReply
    /\ final' = NoVerdict
    /\ UNCHANGED <<apiKey, hasGemini, caller>>

\* analyze_text returns final to a direct caller; the locals of the call are gone.
AnalyzeTextReturns ==
    /\ pc = "return"
    /\ caller = "direct"
    /\ resp' = [status |-> "returned", body |-> final]
    /\ pc' = "responded"
    /\ text' = NoText
    /\ heur' = NoVerdict
    /\ reply' = NoReply
    /\ final' = NoVerdict
    /\ UNCHANGED <<apiKey, hasGemini, caller>>

\* The request is over and the next one may come.
NextRequest ==
    /\ pc = "responded"
    /\ pc' = "idle"
    /\ caller' = "none"
    /\ resp' = NoResp
    /\ UNCHANGED <<apiKey, hasGemini, text, heur, reply, final>>

Next ==
    \/ AnalyzeRequest
    \/ DirectCall
    \/ CallLlmToRefine
    \/ RemoteReturns
    \/ Respond
    \/ AnalyzeTextReturns
    \/ NextRequest

Spec == Init /\ [][Next]_vars

\* The steps of the program are taken when they can be; the remote service
\* owes no reply, and no client owes a request.
FairSpec ==
    /\ Spec
    /\ WF_vars(CallLlmToRefine)
    /\ WF_vars(Respond)
    /\ WF_vars(AnalyzeTextReturns)
    /\ WF_vars(NextRequest)

(***************************************************************************)
(* The properties.  heuristics_analyze has just returned when pc is        *)
(* "refine"; call_llm_to_refine has just returned when pc is "return".     *)
(***************************************************************************)
AtHeuristicsReturn == pc = "refine"
AtRefineReturn == pc = "return"

RiskLevels == {Str("Safe"), Str("Suspicious"), Str("Dangerous")}

\* The label the thresholds give a score.
ThresholdLabel(score) ==
    CASE score >= 60 -> "Dangerous"
      [] score >= 30 /\ score < 60 -> "Suspicious"
      [] score < 30 -> "Safe"

\* Some phrase of the list occurs in the text, whatever its case.
AnyPhrase(words, txt) ==
    \E k \in DOMAIN words : Contains(Lower(Strip(txt)), words[k].chars)

\* The fixed weights of the flags of one URL.
UrlWeights(u) ==
    (IF IsIpUrl(Normalize(u)) THEN 20 ELSE 0)
    + (IF IsShortened(Normalize(u)) THEN 12 ELSE 0)
    + (IF Count(RegistrableDomain(Normalize(u)), "-") >= 2 THEN 6 ELSE 0)

RECURSIVE SumUrlWeights(_)
SumUrlWeights(urls) ==
    IF urls = <<>> THEN 0 ELSE UrlWeights(Head(urls)) + SumUrlWeights(Tail(urls))

\* The sum of the weights of the checks that fire on a text.
ExpectedSum(txt) ==
    (IF AnyPhrase(urgent, txt) THEN 28 ELSE 0)
    + (IF AnyPhrase(sensitive, txt) THEN 30 ELSE 0)
    + (IF Count(txt, "!") >= 2 THEN 6 ELSE 0)
    + (IF HasCapsRun(Strip(txt)) THEN 5 ELSE 0)
    + SumUrlWeights(FindUrls(Strip(txt)))

\* C1: the verdict of heuristics_analyze has a score in 0..100 and the risk
\* level the thresholds give that score (>= 60 Dangerous, 30..59 Suspicious,
\* below 30 Safe).
C1_ScoreBoundedAndLabelled ==
    AtHeuristicsReturn =>
        /\ heur.score \in 0..100
        /\ heur.risk_level = Str(ThresholdLabel(heur.score))

\* A text whose weights sum past 100 was analyzed and its score clamped.
C1_Witness ==
    /\ AtHeuristicsReturn
    /\ ExpectedSum(text) > 100
    /\ heur.score = 100
    /\ heur.risk_level = Str("Dangerous")

\* C2: for a text that is empty or only whitespace heuristics_analyze returns
\* exactly Safe, 0, ["Empty message"], [].
C2_BlankGivesEmptyMessage ==
    (AtHeuristicsReturn /\ Strip(text) = <<>>) => heur = EmptyVerdict

\* What the adapter's try block parsed out of a reply, if anything.
ParsedReply(r) ==
    IF r.kind # "text" THEN [ok |-> FALSE, obj |-> Absent]
    ELSE LET a == Find(r.out, LB)
             b == RFind(r.out, RB)
         IN  IF a # 0 /\ b > a THEN JsonLoads(SubSeq(r.out, a, b))
             ELSE [ok |-> FALSE, obj |-> Absent]

\* A parsed reply with a field that is present and breaks the schema of the
\* prompt: score 0-100, risk_level Safe|Suspicious|Dangerous, reasons a list
\* of strings, suspicious_links a list of objects.
SchemaViolating(o) ==
    \/ o.score # Absent /\ ~(o.score.t = "int" /\ o.score.n \in 0..100)
    \/ o.risk_level # Absent /\ o.risk_level \notin RiskLevels
    \/ /\ o.reasons # Absent
       /\ ~(/\ o.reasons.t = "list"
            /\ \A i \in DOMAIN o.reasons.xs : o.reasons.xs[i].t = "str")
    \/ /\ o.suspicious_links # Absent
       /\ ~(/\ o.suspicious_links.t = "list"
            /\ \A i \in DOMAIN o.suspicious_links.xs : o.suspicious_links.xs[i].t = "dict")

\* The adapter was unavailable or failed: no key or library, the call raised,
\* the reply did not parse, or it parsed to a schema-violating object.
AdapterFailed(r) ==
    \/ r.kind \in {"unavailable", "raised"}
    \/ r.kind = "text" /\ ~ParsedReply(r).ok
    \/ r.kind = "text" /\ ParsedReply(r).ok /\ SchemaViolating(ParsedReply(r).obj)

\* C3: whenever the adapter is unavailable or fails, call_llm_to_refine
\* returns a verdict whose four fields equal those of the base verdict.
C3_FailureReturnsBase ==
    (AtRefineReturn /\ AdapterFailed(reply)) => final = heur

\* C4: when the reply parses to an object, each field of the result is the
\* reply's when it is valid and the base's when it is missing or invalid:
\* score an integer clamped to 0..100 (base's when missing or non-numeric),
\* risk_level base's when missing, reasons a sequence of strings (base's when
\* missing, the one-element sequence of str(value) for a non-sequence),
\* suspicious_links base's unless the reply's value is a sequence.
C4_FieldByFieldFallback ==
    (AtRefineReturn /\ ParsedReply(reply).ok) =>
        LET o == ParsedReply(reply).obj
            n == PyInt(o.score)
        IN  /\ final.score \in 0..100
            /\ final.score = IF n.ok THEN Max(0, Min(100, n.n)) ELSE heur.score
            /\ final.risk_level =
                   IF o.risk_level = Absent THEN heur.risk_level ELSE o.risk_level
            /\ \A i \in DOMAIN final.reasons : final.reasons[i].t = "str"
            /\ final.reasons =
                   IF o.reasons = Absent THEN heur.reasons
                   ELSE IF o.reasons.t = "list" THEN o.reasons.xs
                   ELSE <<Str(PyStr(o.reasons))>>
            /\ final.suspicious_links =
                   IF o.suspicious_links.t = "list" THEN o.suspicious_links.xs
                   ELSE heur.suspicious_links

\* C5: the verdict analyze_text returns has a risk level among Safe,
\* Suspicious, Dangerous, and it is the threshold label of its own score.
C5_FinalLevelFollowsScore ==
    AtRefineReturn =>
        /\ final.risk_level \in RiskLevels
        /\ final.risk_level = Str(ThresholdLabel(final.score))

\* No check of heuristics_analyze fires on the text.
NoCheckFires(txt) ==
    /\ ~AnyPhrase(urgent, txt)
    /\ ~AnyPhrase(sensitive, txt)
    /\ Count(txt, "!") < 2
    /\ ~HasCapsRun(Strip(txt))
    /\ FindUrls(Strip(txt)) = <<>>

\* C6: the reasons of the verdict of heuristics_analyze are never empty, and
\* when no check appended a reason they are the neutral reason alone.
C6_ReasonsNeverEmpty ==
    AtHeuristicsReturn =>
        /\ heur.reasons # <<>>
        /\ (text # <<>> /\ NoCheckFires(text)) =>
               heur.reasons = <<Str("No strong heuristic flags found")>>

\* A text on which no check fires was analyzed and got the neutral reason.
C6_Witness ==
    /\ AtHeuristicsReturn
    /\ text = AlertText
    /\ heur.reasons = <<Str("No strong heuristic flags found")>>

\* C7 as stated: on the URGENT... text only the urgency check, the
\* sensitive-info check and the IP flag fire, no formatting bonus, score 78,
\* Dangerous, one link whose problem is the IP flag.
C7_Score78NoFormattingBonus ==
    (AtHeuristicsReturn /\ text = UrgentIpText) =>
        /\ heur.score = 78
        /\ heur.risk_level = Str("Dangerous")
        /\ \A i \in DOMAIN heur.reasons :
               heur.reasons[i] # Str("Contains long ALL-CAPS word(s)")
        /\ Len(heur.suspicious_links) = 1
        /\ heur.suspicious_links[1].problem = Str("IP address used in URL")

\* C7, amended: on the URGENT... text the urgency check (28), the
\* sensitive-info check (30), the ALL-CAPS check (5: URGENT is a run of six
\* capitals) and the IP flag (20) fire, the exclamation check does not; the
\* score is 83, the level Dangerous, and the one link has the IP problem.
C7_Score83WithCapsBonus ==
    (AtHeuristicsReturn /\ text = UrgentIpText) =>
        /\ heur.score = 83
        /\ heur.risk_level = Str("Dangerous")
        /\ heur.reasons =
               << Str("Urgency language: urgent, verify, verify your, immediately"),
                  Str("Requests sensitive info: password, login"),
                  Str("Contains long ALL-CAPS word(s)"),
                  Str("Found 1 link(s) -- inspect domains") >>
        /\ Len(heur.suspicious_links) = 1
        /\ heur.suspicious_links[1].url = <<"h","t","t","p",":","/","/","1","9","2",".","1","6","8",".","1",".","5","/","l","o","g","i","n">>
        /\ heur.suspicious_links[1].problem = Str("IP address used in URL")

\* The URGENT... text was analyzed.
C7_Witness ==
    /\ AtHeuristicsReturn
    /\ text = UrgentIpText
    /\ heur.score > 0

\* C8: every /analyze request with a valid text is eventually answered, even
\* if the remote call of the adapter never completes.
C8_HandlerEventuallyResponds ==
    (caller = "http" /\ pc = "refine") ~> (pc = "responded")

\* C9: for a non-empty text the score is min(100, S), S the sum of the fixed
\* weights of the checks that fired: 28, 30, 6, 5 once each, and 20, 12, 6
\* per extracted URL.
C9_ScoreIsClampedSum ==
    (AtHeuristicsReturn /\ text # <<>>) =>
        heur.score = Min(100, ExpectedSum(text))

\* The same flagged URL was extracted twice and its weights counted twice.
C9_Witness ==
    /\ AtHeuristicsReturn
    /\ Len(heur.suspicious_links) = 2
    /\ heur.suspicious_links[1] = heur.suspicious_links[2]
    /\ heur.score = 2 * UrlWeights(heur.suspicious_links[1].url)
    /\ heur.score > 0

\* The problem the claim gives a URL: the names of the fired flags, in the
\* fixed order, joined by "; ", and null when none fired.
ExpectedProblem(u) ==
    LET flags == << [on |-> IsIpUrl(Normalize(u)), name |-> "IP address used in URL"],
                    [on |-> IsShortened(Normalize(u)), name |-> "shortened URL"],
                    [on |-> Count(RegistrableDomain(Normalize(u)), "-") >= 2,
                     name |-> "suspicious domain pattern"] >>
        fired == SelectSeq(flags, LAMBDA f : f.on)
    IN  IF fired = <<>> THEN None
        ELSE Str(JoinStr([i \in 1..Len(fired) |-> fired[i].name], "; "))

\* C10: one LinkFinding per extracted URL, in extraction order, duplicates
\* kept; its problem is null iff no flag fired, else the fired flags' names
\* joined by "; " in the fixed order; it is never the empty string.
C10_OneFindingPerUrl ==
    (AtHeuristicsReturn /\ text # <<>>) =>
        LET urls == FindUrls(Strip(text))
            links == heur.suspicious_links
        IN  /\ Len(links) = Len(urls)
            /\ \A i \in DOMAIN links :
                /\ links[i].url = urls[i]
                /\ links[i].problem = ExpectedProblem(urls[i])
                /\ links[i].problem # Str("")

\* A URL with all three flags and a URL with none were inspected in one text.
C10_Witness ==
    /\ AtHeuristicsReturn
    /\ Len(heur.suspicious_links) = 2
    /\ heur.suspicious_links[1].problem =
           Str("IP address used in URL; shortened URL; suspicious domain pattern")
    /\ heur.suspicious_links[2].problem = None

====
